---------------------------- MODULE Spec2Model ----------------------------
(***************************************************************************)
(* A model of the wshell front end: the lexer (src/lib/parser/lexer.cpp),  *)
(* the recursive-descent parser (src/lib/parser/parser.cpp) and the REPL   *)
(* loop of src/main/main.cpp.                                              *)
(*                                                                         *)
(* A source text is a sequence of one-character strings.  The lexer state  *)
(* is the record [position, line, column, peeked] of class Lexer; the      *)
(* source itself is immutable and is passed beside it.  Every parser       *)
(* method is an operator from (source, lexer state) to a result record     *)
(* that carries the lexer state the method leaves behind.                  *)
(***************************************************************************)
EXTENDS Integers, Sequences, FiniteSets, TLC

VARIABLES
    source,      \* the text handed to the lexer / parser (full_input in the REPL)
    pc,          \* position of the driver
    result,      \* <<>> or <<r>>: the last value returned by parse_line / parse_program
    lexer,       \* state of the Lexer object driven token by token
    tokens,      \* the vector filled by Lexer::tokenize
    lines,       \* REPL: the lines read since the last PS1 prompt
    out,         \* what was written to std::cout / stdout_dest
    err,         \* REPL: what was written to stderr_dest
    executed,    \* REPL: number of interpreter.execute_program calls
    reads,       \* REPL: number of read_line calls so far
    history      \* <<>> or <<h>>: the History object, once constructed

vars == <<source, pc, result, lexer, tokens, lines, out, err, executed, reads, history>>

(***************************************************************************)
(* Bounds of the model.                                                    *)
(***************************************************************************)
MaxPieces == 5        \* pieces in a source handed to the parser
MaxLetPieces == 6     \* pieces in a source of the assignment battery
MaxLexLen == 4        \* characters in a source handed to the lexer alone
MaxLinePieces == 2    \* pieces in one line typed at the REPL
MaxReads == 3         \* read_line calls in one REPL run
MaxAssignPieces == 4  \* pieces after `let a` in a source of the empty-value battery
MaxBlankPieces == 5   \* pieces in a source of the white-space battery
MaxRedirPieces == 5   \* pieces in a source of the redirection battery
MaxQuotePieces == 6   \* pieces after the command name in a source of the quoting battery
MaxHistoryMax == 2    \* largest max_items given to History and to set_max
MaxHistoryItems == 4  \* a push is modelled while the history holds fewer items
MaxArenaPieces == 7   \* pieces of a line given to the arena-based parser
MaxResetLen == 3      \* characters of a source lexed with reset() calls

(***************************************************************************)
(* Sequence helpers.                                                       *)
(***************************************************************************)
RECURSIVE Flatten(_)
Flatten(ss) == IF ss = <<>> THEN <<>> ELSE Head(ss) \o Flatten(Tail(ss))

SeqsUpTo(S, n) == UNION { [1..k -> S] : k \in 0..n }

Last(s) == s[Len(s)]
Front(s) == SubSeq(s, 1, Len(s) - 1)

(***************************************************************************)
(* Lexer (lexer.hpp, lexer.cpp).  A step that needs the result of a call   *)
(* more than once is written as an operator that takes the result as a     *)
(* parameter.                                                              *)
(***************************************************************************)
NewLexer == [position |-> 0, line |-> 1, column |-> 1, peeked |-> <<>>]

is_at_end(src, lx) == lx.position >= Len(src)

current(src, lx) == IF is_at_end(src, lx) THEN "NUL" ELSE src[lx.position + 1]

peek(src, lx) ==
    IF lx.position + 1 >= Len(src) THEN "NUL" ELSE src[lx.position + 2]

advance(src, lx) ==
    IF is_at_end(src, lx) THEN lx
    ELSE IF current(src, lx) = "\n"
         THEN [lx EXCEPT !.line = @ + 1, !.column = 1, !.position = @ + 1]
         ELSE [lx EXCEPT !.column = @ + 1, !.position = @ + 1]

RECURSIVE skip_whitespace(_, _)
skip_whitespace(src, lx) ==
    IF ~is_at_end(src, lx) /\ current(src, lx) \in {" ", "\t"}
    THEN skip_whitespace(src, advance(src, lx))
    ELSE lx

make_token(type, value, lx) ==
    [type |-> type, value |-> value, line |-> lx.line, column |-> lx.column]

\* std::isspace in the "C" locale (the vertical tab has no TLA+ literal)
isspace(c) == c \in {" ", "\t", "\n", "\r", "\f"}

is_operator(c) == c \in {"=", "#", "|", "&", ";", "<", ">"}

RECURSIVE ScanToEol(_, _)
ScanToEol(src, lx) ==
    IF ~is_at_end(src, lx) /\ current(src, lx) # "\n"
    THEN ScanToEol(src, advance(src, lx))
    ELSE lx

\* the comment token once the scan has stopped at l1: the text after '#',
\* less one leading space
CommentToken(src, start, l1) ==
    LET text == SubSeq(src, start + 2, l1.position)
        trimmed == IF text # <<>> /\ text[1] = " " THEN Tail(text) ELSE text
    IN [tok |-> make_token("Comment", trimmed, l1), lx |-> l1]

lex_comment(src, lx) ==
    CommentToken(src, lx.position, ScanToEol(src, advance(src, lx)))

RECURSIVE ScanWord(_, _)
ScanWord(src, lx) ==
    IF ~is_at_end(src, lx) /\ ~isspace(current(src, lx)) /\ ~is_operator(current(src, lx))
    THEN ScanWord(src, advance(src, lx))
    ELSE lx

\* the word token once the scan has stopped at l1
WordToken(src, start, l1) ==
    LET text == SubSeq(src, start + 1, l1.position)
    IN IF text = <<"l", "e", "t">>
       THEN [tok |-> make_token("Let", text, l1), lx |-> l1]
       ELSE [tok |-> make_token("Identifier", text, l1), lx |-> l1]

lex_word(src, lx) == WordToken(src, lx.position, ScanWord(src, lx))

\* the switch of next_token on the character c at l1; l2 is the lexer
\* after advance()
SwitchOnChar(src, l1, c, l2) ==
    CASE c = "\n" -> [tok |-> make_token("Newline", <<"\n">>, l1), lx |-> l2]
      [] c = "#" -> lex_comment(src, l1)
      [] c = "|" -> [tok |-> make_token("Pipe", <<"|">>, l2), lx |-> l2]
      [] c = "&" -> [tok |-> make_token("Background", <<"&">>, l2), lx |-> l2]
      [] c = ";" -> [tok |-> make_token("Semicolon", <<";">>, l2), lx |-> l2]
      [] c = ">" ->
           IF peek(src, l1) = ">"
           THEN LET l3 == advance(src, l2)
                IN [tok |-> make_token("Redirect", <<">", ">">>, l3), lx |-> l3]
           ELSE [tok |-> make_token("Redirect", <<">">>, l2), lx |-> l2]
      [] c = "<" -> [tok |-> make_token("Redirect", <<"<">>, l2), lx |-> l2]
      [] c = "=" -> [tok |-> make_token("Equals", <<"=">>, l1), lx |-> l2]
      [] OTHER -> lex_word(src, l1)

\* next_token after skip_whitespace()
ScanToken(src, l1) ==
    IF is_at_end(src, l1)
    THEN [tok |-> make_token("EndOfFile", <<>>, l1), lx |-> l1]
    ELSE SwitchOnChar(src, l1, current(src, l1), advance(src, l1))

next_token(src, lx) ==
    IF lx.peeked # <<>>
    THEN [tok |-> lx.peeked[1], lx |-> [lx EXCEPT !.peeked = <<>>]]
    ELSE ScanToken(src, skip_whitespace(src, lx))

\* peeked_token_ = next_token()
StorePeeked(n) == [tok |-> n.tok, lx |-> [n.lx EXCEPT !.peeked = <<n.tok>>]]

\* a peek_token that does not buffer the token it reads
peek_token_Unbuffered(src, lx) == next_token(src, lx)

peek_token(src, lx) ==
    IF lx.peeked = <<>>
    THEN StorePeeked(next_token(src, lx))
    ELSE [tok |-> lx.peeked[1], lx |-> lx]

(***************************************************************************)
(* Parser results.  Ok carries the value and the lexer state after the     *)
(* call; Fail is a ParseError {kind_, line_, column_} (the message is left *)
(* out) with the lexer state at the point of failure.  NoReturn stands for *)
(* a call that never returns: a loop of the parser whose lexer state       *)
(* repeats, which happens when next_token yields a token without moving.   *)
(* In the operators below p, t, a, last stand for a result of peek_token   *)
(* (the token and the lexer that holds it), m for a result of match.       *)
(***************************************************************************)
Ok(v, lx) == [ok |-> TRUE, val |-> v, lx |-> lx]

Fail(kind, line, column, lx) ==
    [ok |-> FALSE, kind |-> kind, line |-> line, column |-> column, lx |-> lx]

NoReturn(lx) == Fail("NoReturn", 0, 0, lx)

\* an error at the peeked token p
ErrorAt(kind, p) == Fail(kind, p.tok.line, p.tok.column, p.lx)

\* Parser::make_error: the error sits at the token peek_token() shows
make_error(src, kind, lx) == ErrorAt(kind, peek_token(src, lx))

\* Parser::check(type) for a set of types, and the lexer state it leaves
check(src, lx, types) == peek_token(src, lx).tok.type \in types
peeked_lx(src, lx) == peek_token(src, lx).lx

\* Parser::match(type): consumes the token when it has that type
MatchPeeked(src, p, type) ==
    IF p.tok.type = type
    THEN [matched |-> TRUE, lx |-> next_token(src, p.lx).lx]
    ELSE [matched |-> FALSE, lx |-> p.lx]

match(src, lx, type) == MatchPeeked(src, peek_token(src, lx), type)

\* while (match(type)) {}
RECURSIVE SkipAll(_, _, _)
SkipMatched(src, m, type) == IF m.matched THEN SkipAll(src, m.lx, type) ELSE m.lx
SkipAll(src, lx, type) == SkipMatched(src, match(src, lx, type), type)

skip_newlines(src, lx) == SkipAll(src, lx, "Newline")

skip_comments(src, lx) == SkipAll(src, lx, "Comment")

(***************************************************************************)
(* AST values (the value-type nodes the parser builds).                    *)
(***************************************************************************)
Word(text, quoted, needs_expansion) ==
    [text |-> text, quoted |-> quoted, needs_expansion |-> needs_expansion]

make_comment(text) == [node |-> "Comment", text |-> text]

make_assignment(variable, value) ==
    [node |-> "Assignment", variable |-> variable, value |-> value]

make_command(name, args) ==
    [node |-> "Command", command_name |-> name, arguments |-> args,
     redirections |-> <<>>, background |-> FALSE]

make_pipeline(cmds) == [node |-> "Pipeline", commands |-> cmds]

make_sequence(stmts) == [node |-> "Sequence", statements |-> stmts]

redirect_kind_from_lexeme(s) ==
    IF s = <<">">> THEN "OutputTruncate"
    ELSE IF s = <<">", ">">> THEN "OutputAppend"
    ELSE "Input"

ControlTokens ==
    {"Newline", "EndOfFile", "Pipe", "Semicolon", "Background", "Redirect"}

(***************************************************************************)
(* The printer (ast_printer.cpp).  A stream is the sequence of the strings *)
(* written to it with <<; the text of a Word is written character by      *)
(* character.                                                              *)
(***************************************************************************)
indent(level) == [i \in 1..level |-> "  "]

print_redirection(r, indent_level) ==
    indent(indent_level)
    \o <<CASE r.kind = "Input" -> "< "
           [] r.kind = "OutputTruncate" -> "> "
           [] r.kind = "OutputAppend" -> ">> ">>
    \o r.target.text \o <<"\n">>

\* a print_command that writes the Args line for every command
print_command_AlwaysArgs(cmd, indent_level) ==
    indent(indent_level) \o <<"Command: ">> \o cmd.command_name.text
    \o (IF cmd.background THEN <<" &">> ELSE <<>>) \o <<"\n">>
    \o indent(indent_level + 1) \o <<"Args:">>
    \o Flatten([i \in 1..Len(cmd.arguments) |-> <<" ">> \o cmd.arguments[i].text])
    \o <<"\n">>
    \o (IF cmd.redirections # <<>>
        THEN indent(indent_level + 1) \o <<"Redirections:\n">>
             \o Flatten([i \in 1..Len(cmd.redirections) |->
                     print_redirection(cmd.redirections[i], indent_level + 2)])
        ELSE <<>>)

print_command(cmd, indent_level) ==
    indent(indent_level) \o <<"Command: ">> \o cmd.command_name.text
    \o (IF cmd.background THEN <<" &">> ELSE <<>>) \o <<"\n">>
    \o (IF cmd.arguments # <<>>
        THEN indent(indent_level + 1) \o <<"Args:">>
             \o Flatten([i \in 1..Len(cmd.arguments) |-> <<" ">> \o cmd.arguments[i].text])
             \o <<"\n">>
        ELSE <<>>)
    \o (IF cmd.redirections # <<>>
        THEN indent(indent_level + 1) \o <<"Redirections:\n">>
             \o Flatten([i \in 1..Len(cmd.redirections) |->
                     print_redirection(cmd.redirections[i], indent_level + 2)])
        ELSE <<>>)

print_pipeline(pipe, indent_level) ==
    indent(indent_level) \o <<"Pipeline:\n">>
    \o Flatten([i \in 1..Len(pipe.commands) |->
            print_command(pipe.commands[i], indent_level + 1)])

RECURSIVE print_node(_, _)
print_sequence(seq, indent_level) ==
    indent(indent_level) \o <<"Sequence:\n">>
    \o Flatten([i \in 1..Len(seq.statements) |->
            print_node(seq.statements[i], indent_level + 1)])

print_node(stmt, indent_level) ==
    CASE stmt.node = "Comment" ->
           indent(indent_level) \o <<"Comment: ">> \o stmt.text \o <<"\n">>
      [] stmt.node = "Assignment" ->
           indent(indent_level) \o <<"Assignment: ">> \o stmt.variable
           \o <<" = ">> \o stmt.value \o <<"\n">>
      [] stmt.node = "Command" -> print_command(stmt, indent_level)
      [] stmt.node = "Pipeline" -> print_pipeline(stmt, indent_level)
      [] stmt.node = "Sequence" -> print_sequence(stmt, indent_level)

print_program(statements) ==
    Flatten([i \in 1..Len(statements) |-> print_node(statements[i], 0)])

(***************************************************************************)
(* Parser::parse_comment                                                   *)
(***************************************************************************)
CommentNode(n) == Ok(make_comment(n.tok.value), n.lx)

parse_comment(src, lx) ==
    IF ~check(src, lx, {"Comment"})
    THEN make_error(src, "SyntaxError", lx)
    ELSE CommentNode(next_token(src, peeked_lx(src, lx)))

(***************************************************************************)
(* Parser::parse_assignment                                                *)
(***************************************************************************)
\* The loop that collects the value tokens until newline / EOF / semicolon;
\* p is the token at the head of the loop, pn the one after it.
RECURSIVE AssignmentValue(_, _, _, _, _)
AssignmentValueNext(src, p, pn, variable, v) ==
    IF pn.lx = p.lx
    THEN NoReturn(p.lx)
    ELSE AssignmentValue(src, pn, variable, v, FALSE)

AssignmentValue(src, p, variable, value, first) ==
    IF p.tok.type \in {"Newline", "EndOfFile", "Semicolon"}
    THEN Ok(make_assignment(variable, value), p.lx)
    ELSE AssignmentValueNext(src, p, peek_token(src, next_token(src, p.lx).lx),
             variable, (IF first THEN value ELSE value \o <<" ">>) \o p.tok.value)

\* after '=' and the comments behind it
AssignmentAfterEquals(src, variable, l3) ==
    IF check(src, l3, {"Semicolon", "EndOfFile", "Newline"})
    THEN Ok(make_assignment(variable, <<>>), peeked_lx(src, l3))
    ELSE AssignmentValue(src, peek_token(src, l3), variable, <<>>, TRUE)

\* the step after '=' that leaves the comments in place
AssignmentAfterName_KeepComments(src, variable, m2) ==
    IF ~m2.matched
    THEN make_error(src, "SyntaxError", m2.lx)
    ELSE AssignmentAfterEquals(src, variable, m2.lx)

\* after the variable name: m2 is match(Equals)
AssignmentAfterName(src, variable, m2) ==
    IF ~m2.matched
    THEN make_error(src, "SyntaxError", m2.lx)
    ELSE AssignmentAfterEquals(src, variable, skip_comments(src, m2.lx))

\* after 'let': p1 is the token that must be the variable name
AssignmentAfterLet(src, p1) ==
    IF p1.tok.type # "Identifier"
    THEN make_error(src, "SyntaxError", p1.lx)
    ELSE AssignmentAfterName(src, p1.tok.value,
             match(src, next_token(src, p1.lx).lx, "Equals"))

\* m0 is match(Let)
AssignmentFrom(src, m0) ==
    IF ~m0.matched
    THEN make_error(src, "SyntaxError", m0.lx)
    ELSE AssignmentAfterLet(src, peek_token(src, m0.lx))

parse_assignment(src, lx) == AssignmentFrom(src, match(src, lx, "Let"))

(***************************************************************************)
(* Parser::parse_redirection                                               *)
(***************************************************************************)
\* op is the operator token consumed, t the token after it
RedirectionTarget(src, op, t) ==
    IF t.tok.type \in {"EndOfFile", "Newline"}
    THEN Fail("SyntaxError", op.tok.line, op.tok.column, t.lx)
    ELSE IF t.tok.type # "Identifier"
         THEN make_error(src, "SyntaxError", t.lx)
         ELSE Ok([kind |-> redirect_kind_from_lexeme(op.tok.value),
                  target |-> Word(t.tok.value, FALSE, TRUE)],
                 next_token(src, t.lx).lx)

RedirectionOperator(src, op) == RedirectionTarget(src, op, peek_token(src, op.lx))

RedirectionFrom(src, p) ==
    IF p.tok.type # "Redirect"
    THEN make_error(src, "SyntaxError", p.lx)
    ELSE RedirectionOperator(src, next_token(src, p.lx))

parse_redirection(src, lx) == RedirectionFrom(src, peek_token(src, lx))

(***************************************************************************)
(* Parser::parse_simple_command                                            *)
(***************************************************************************)
\* The inner while (true) of a quoted argument.  lx shows (peeked) the token
\* whose text was last added to val.  Returns val and the lexer state at
\* the break; stuck is TRUE when the loop can never break.
RECURSIVE QuotedRun(_, _, _)
QuotedNext(src, lx, val, p) ==
    IF p.tok.type \in ControlTokens
    THEN [val |-> val, lx |-> p.lx, stuck |-> FALSE]
    ELSE IF p.lx = lx
         THEN [val |-> val, lx |-> p.lx, stuck |-> TRUE]
         ELSE QuotedRun(src, p.lx, (val \o <<" ">>) \o p.tok.value)

QuotedRun(src, lx, val) ==
    IF val # <<>> /\ Last(val) = "\""
    THEN [val |-> Front(val), lx |-> lx, stuck |-> FALSE]
    ELSE QuotedNext(src, lx, val, peek_token(src, next_token(src, lx).lx))

\* arg_token.value starts with a double quote
is_quoted(value) == value # <<>> /\ value[1] = "\""

\* the text of the argument at p, and the lexer showing its last token
ArgumentText(src, p) ==
    IF is_quoted(p.tok.value)
    THEN QuotedRun(src, p.lx, Tail(p.tok.value))
    ELSE [val |-> p.tok.value, lx |-> p.lx, stuck |-> FALSE]

\* The argument loop: while no control token is next
RECURSIVE Arguments(_, _, _, _)
\* q is the argument's text, l1 the lexer after its last token is consumed
ArgumentsNext(src, p, q, l1, name, args) ==
    IF q.stuck \/ peeked_lx(src, l1) = p.lx
    THEN NoReturn(p.lx)
    ELSE Arguments(src, l1, name,
             Append(args, Word(q.val, is_quoted(p.tok.value), TRUE)))

ArgumentsAdd(src, p, q, name, args) ==
    ArgumentsNext(src, p, q, next_token(src, q.lx).lx, name, args)

ArgumentsFrom(src, p, name, args) ==
    IF p.tok.type \in ControlTokens
    THEN Ok(make_command(name, args), p.lx)
    ELSE IF p.tok.type \notin {"Identifier", "Equals"}
         THEN Ok(make_command(name, args), p.lx)
         ELSE ArgumentsAdd(src, p, ArgumentText(src, p), name, args)

Arguments(src, lx, name, args) == ArgumentsFrom(src, peek_token(src, lx), name, args)

SimpleCommandFrom(src, p) ==
    IF p.tok.type # "Identifier"
    THEN make_error(src, "SyntaxError", p.lx)
    ELSE Arguments(src, next_token(src, p.lx).lx, Word(p.tok.value, FALSE, TRUE), <<>>)

parse_simple_command(src, lx) == SimpleCommandFrom(src, peek_token(src, lx))

(***************************************************************************)
(* Parser::parse_command                                                   *)
(***************************************************************************)
\* while (check(Redirect)) ...; then the optional '&'
RECURSIVE Redirections(_, _, _)
\* a loop body that puts the new redirection in front of the list
AddRedirection_Prepend(src, cmd, r) ==
    IF ~r.ok THEN r
    ELSE Redirections(src, r.lx, [cmd EXCEPT !.redirections = <<r.val>> \o @])

AddRedirection(src, cmd, r) ==
    IF ~r.ok THEN r
    ELSE Redirections(src, r.lx, [cmd EXCEPT !.redirections = Append(@, r.val)])

\* an '&' that is consumed without marking the command
BackgroundFlag_Dropped(cmd, m) == Ok(cmd, m.lx)

\* m is match(Background)
BackgroundFlag(cmd, m) ==
    IF m.matched THEN Ok([cmd EXCEPT !.background = TRUE], m.lx) ELSE Ok(cmd, m.lx)

Redirections(src, lx, cmd) ==
    IF check(src, lx, {"Redirect"})
    THEN AddRedirection(src, cmd, parse_redirection(src, lx))
    ELSE BackgroundFlag(cmd, match(src, lx, "Background"))

CommandFrom(src, simple) ==
    IF ~simple.ok THEN simple ELSE Redirections(src, simple.lx, simple.val)

parse_command(src, lx) == CommandFrom(src, parse_simple_command(src, lx))

(***************************************************************************)
(* Parser::parse_pipeline                                                  *)
(***************************************************************************)
\* a parse_pipeline that wraps even a single command in a PipelineNode
PipelineResult_NoCollapse(cmds, lx) == Ok(make_pipeline(cmds), lx)

\* the tail of parse_pipeline: a single command is returned bare
PipelineResult(cmds, lx) ==
    IF Len(cmds) = 1 THEN Ok(cmds[1], lx) ELSE Ok(make_pipeline(cmds), lx)

\* while (check(TokenType::Pipe)) ...; p is the token at the head of the
\* loop (pipe_tok, held by lexer_state), t the token after the pipe and
\* the comments behind it, next the command parsed there
RECURSIVE PipelineRest(_, _, _)
\* a loop body that puts the new command in front of the list
PipelineNext_Prepend(src, p, cmds, next) ==
    IF ~next.ok
    THEN IF next.kind \in {"IncompleteInput", "NoReturn"}
         THEN next
         ELSE PipelineResult(cmds, p.lx)
    ELSE PipelineRest(src, next.lx, <<next.val>> \o cmds)

\* a loop body that breaks on a failed command without lexer_ = lexer_state
PipelineNext_NoRestore(src, p, cmds, next) ==
    IF ~next.ok
    THEN IF next.kind \in {"IncompleteInput", "NoReturn"}
         THEN next
         ELSE PipelineResult(cmds, next.lx)
    ELSE PipelineRest(src, next.lx, Append(cmds, next.val))

PipelineNext(src, p, cmds, next) ==
    IF ~next.ok
    THEN IF next.kind \in {"IncompleteInput", "NoReturn"}
         THEN next
         ELSE PipelineResult(cmds, p.lx)
    ELSE PipelineRest(src, next.lx, Append(cmds, next.val))

\* the checks after a pipe without the two SyntaxError cases
PipelineAfterPipe_NoSyntaxCheck(src, p, cmds, t) ==
    IF t.tok.type \in {"EndOfFile", "Newline"}
    THEN Fail("IncompleteInput", p.tok.line, p.tok.column, t.lx)
    ELSE PipelineNext(src, p, cmds, parse_command(src, t.lx))

PipelineAfterPipe(src, p, cmds, t) ==
    IF t.tok.type \in {"Pipe", "Semicolon"}
    THEN ErrorAt("SyntaxError", t)
    ELSE IF t.tok.type \in {"EndOfFile", "Newline"}
         THEN Fail("IncompleteInput", p.tok.line, p.tok.column, t.lx)
         ELSE PipelineNext(src, p, cmds, parse_command(src, t.lx))

PipelineFrom(src, p, cmds) ==
    IF p.tok.type # "Pipe"
    THEN PipelineResult(cmds, p.lx)
    ELSE PipelineAfterPipe(src, p, cmds,
             peek_token(src, skip_comments(src, match(src, p.lx, "Pipe").lx)))

PipelineRest(src, lx, cmds) == PipelineFrom(src, peek_token(src, lx), cmds)

PipelineFirst(src, first) ==
    IF ~first.ok THEN first ELSE PipelineRest(src, first.lx, <<first.val>>)

parse_pipeline(src, lx) == PipelineFirst(src, parse_command(src, lx))

(***************************************************************************)
(* Parser::parse_list                                                      *)
(***************************************************************************)
\* while (match(TokenType::Semicolon)) ...; m is the match, t the token
\* after the semicolon, next_pipe the pipeline parsed there, a the token
\* after that pipeline
RECURSIVE ListRest(_, _, _)
ListAppend(src, stmts, next_pipe, a) ==
    IF a.tok.type \in {"Pipe", "Redirect"}
    THEN ErrorAt("IncompleteInput", a)
    ELSE ListRest(src, a.lx, Append(stmts, next_pipe.val))

ListNext(src, stmts, next_pipe) ==
    IF ~next_pipe.ok THEN next_pipe
    ELSE ListAppend(src, stmts, next_pipe, peek_token(src, next_pipe.lx))

ListAfterSemicolon(src, stmts, t) ==
    IF t.tok.type \in {"EndOfFile", "Newline"}
    THEN Ok(make_sequence(stmts), t.lx)
    ELSE IF t.tok.type \in {"Pipe", "Redirect"}
         THEN ErrorAt("IncompleteInput", t)
         ELSE ListNext(src, stmts, parse_pipeline(src, t.lx))

ListFrom(src, stmts, m) ==
    IF ~m.matched
    THEN Ok(make_sequence(stmts), m.lx)
    ELSE ListAfterSemicolon(src, stmts, peek_token(src, m.lx))

ListRest(src, lx, stmts) == ListFrom(src, stmts, match(src, lx, "Semicolon"))

ListFirst(src, first_pipe) ==
    IF ~first_pipe.ok THEN first_pipe
    ELSE IF ~check(src, first_pipe.lx, {"Semicolon"})
         THEN Ok(first_pipe.val, peeked_lx(src, first_pipe.lx))
         ELSE ListRest(src, first_pipe.lx, <<first_pipe.val>>)

parse_list(src, lx) == ListFirst(src, parse_pipeline(src, lx))

(***************************************************************************)
(* Parser::parse_statement                                                 *)
(***************************************************************************)
\* after skip_newlines(): the dispatch on the type of the next token
StatementAt(src, l1, type) ==
    IF type = "EndOfFile" THEN make_error(src, "SyntaxError", l1)
    ELSE IF type = "Comment" THEN parse_comment(src, l1)
    ELSE IF type = "Let" THEN parse_assignment(src, l1)
    ELSE parse_list(src, l1)

StatementFrom(src, l1) == StatementAt(src, l1, peek_token(src, l1).tok.type)

parse_statement(src, lx) == StatementFrom(src, skip_newlines(src, lx))

(***************************************************************************)
(* Parser::parse_program.  A ProgramNode is the sequence of its statements.*)
(***************************************************************************)
RECURSIVE ProgramRest(_, _, _)
ProgramNext(src, stmts, stmt) ==
    IF ~stmt.ok THEN stmt
    ELSE ProgramRest(src, skip_newlines(src, stmt.lx), Append(stmts, stmt.val))

ProgramRest(src, lx, stmts) ==
    IF check(src, lx, {"EndOfFile"})
    THEN Ok(stmts, peeked_lx(src, lx))
    ELSE ProgramNext(src, stmts, parse_statement(src, lx))

Parser_parse_program(src, lx) == ProgramRest(src, skip_newlines(src, lx), <<>>)

(***************************************************************************)
(* Parser::parse_line                                                      *)
(***************************************************************************)
\* a ';' was left over: next is the token after it
LeftoverAfterSemicolon(stmts, next) ==
    IF next.tok.type = "EndOfFile" THEN Ok(stmts, next.lx)
    ELSE IF next.tok.type \in {"Pipe", "Redirect"}
         THEN ErrorAt("IncompleteInput", next)
         ELSE ErrorAt("SyntaxError", next)

\* last is the token left after the optional newline and semicolon
Leftover(src, stmts, last) ==
    IF last.tok.type = "EndOfFile" THEN Ok(stmts, last.lx)
    ELSE IF last.tok.type \in {"Pipe", "Redirect"}
         THEN ErrorAt("IncompleteInput", last)
    ELSE IF last.tok.type = "Semicolon"
         THEN LeftoverAfterSemicolon(stmts,
                  peek_token(src, next_token(src, last.lx).lx))
    ELSE ErrorAt("SyntaxError", last)

\* the code after program->add_statement: separators and leftover tokens
LineRest(src, lx, stmts) ==
    Leftover(src, stmts,
        peek_token(src, match(src, match(src, lx, "Newline").lx, "Semicolon").lx))

LineStatement(src, stmt) ==
    IF ~stmt.ok THEN stmt ELSE LineRest(src, stmt.lx, <<stmt.val>>)

\* parse_line without the test for the empty input
Parser_parse_line_NoEmptyCheck(src, lx) ==
    LineStatement(src, parse_statement(src, lx))

Parser_parse_line(src, lx) ==
    IF check(src, lx, {"EndOfFile", "Newline"})
    THEN Ok(<<>>, peeked_lx(src, lx))
    ELSE LineStatement(src, parse_statement(src, peeked_lx(src, lx)))

\* the free functions of parser.hpp: a fresh Parser over the source
parse_line(src) == Parser_parse_line(src, NewLexer)

parse_program(src) == Parser_parse_program(src, NewLexer)

(***************************************************************************)
(* Inputs: a source is a concatenation of pieces.                          *)
(***************************************************************************)
Pieces ==
    { <<"a">>, <<" ">>, <<"|">>, <<";">>, <<">">>, <<"&">>, <<"#">>, <<"\"">>, <<"\n">> }

\* the pieces of the assignment battery (let x = 42 ; echo hi |)
LetPieces == { <<"l", "e", "t", " ">>, <<"a">>, <<"=">>, <<";">>, <<"|">>, <<" ">> }

Sources == { Flatten(ps) : ps \in SeqsUpTo(Pieces, MaxPieces) }

LetSources == { Flatten(ps) : ps \in SeqsUpTo(LetPieces, MaxLetPieces) }

(***************************************************************************)
(* Spec: the parser's two entry points applied to every source.            *)
(***************************************************************************)
Idle ==
    /\ lexer = NewLexer /\ tokens = <<>> /\ lines = <<>>
    /\ out = <<>> /\ err = <<>> /\ executed = 0 /\ reads = 0
    /\ history = <<>>

Init ==
    /\ source \in Sources
    /\ pc = "start"
    /\ result = <<>>
    /\ Idle

\* wshell::parse_line(source): parses, and prints the program on success
CallParseLine ==
    /\ pc = "start"
    /\ result' = <<parse_line(source)>>
    /\ out' = IF result'[1].ok THEN out \o print_program(result'[1].val) ELSE out
    /\ pc' = "parse_line"
    /\ UNCHANGED <<source, lexer, tokens, lines, err, executed, reads, history>>

\* wshell::parse_program(source)
CallParseProgram ==
    /\ pc = "start"
    /\ result' = <<parse_program(source)>>
    /\ out' = IF result'[1].ok THEN out \o print_program(result'[1].val) ELSE out
    /\ pc' = "parse_program"
    /\ UNCHANGED <<source, lexer, tokens, lines, err, executed, reads, history>>

Next == CallParseLine \/ CallParseProgram

Spec == Init /\ [][Next]_vars

\* SpecLet: the same entry points on the assignment battery
InitLet ==
    /\ source \in LetSources
    /\ pc = "start"
    /\ result = <<>>
    /\ Idle

SpecLet == InitLet /\ [][Next]_vars

\* SpecAssign: the same entry points on `let a` followed by what may end
\* an assignment without a value
AssignPieces == {<<"=">>, <<" ">>, <<";">>, <<"#">>, <<"\n">>, <<"a">>}

AssignSources ==
    {<<"l", "e", "t", " ", "a">> \o Flatten(ps) : ps \in SeqsUpTo(AssignPieces, MaxAssignPieces)}

InitAssign ==
    /\ source \in AssignSources
    /\ pc = "start"
    /\ result = <<>>
    /\ Idle

SpecAssign == InitAssign /\ [][Next]_vars

\* SpecBlank: the same entry points on spaces, tabs, newlines and a word
BlankPieces == {<<" ">>, <<"\t">>, <<"\n">>, <<"a">>}

BlankSources == {Flatten(ps) : ps \in SeqsUpTo(BlankPieces, MaxBlankPieces)}

InitBlank ==
    /\ source \in BlankSources
    /\ pc = "start"
    /\ result = <<>>
    /\ Idle

SpecBlank == InitBlank /\ [][Next]_vars

\* SpecRedir: the same entry points on commands, pipes and redirections
RedirPieces ==
    { <<"a">>, <<" ">>, <<"|">>, <<"<">>, <<">">>,
      <<"<", "a">>, <<">", "b">>, <<">", ">", "a">> }

RedirSources == {Flatten(ps) : ps \in SeqsUpTo(RedirPieces, MaxRedirPieces)}

InitRedir ==
    /\ source \in RedirSources
    /\ pc = "start"
    /\ result = <<>>
    /\ Idle

SpecRedir == InitRedir /\ [][Next]_vars

\* SpecQuote: the same entry points on a command name followed by words,
\* double quotes and backslashes
QuotePieces == {<<"a">>, <<" ">>, <<"\"">>, <<"\\">>}

QuoteSources ==
    {<<"a", " ">> \o Flatten(ps) : ps \in SeqsUpTo(QuotePieces, MaxQuotePieces)}

InitQuote ==
    /\ source \in QuoteSources
    /\ pc = "start"
    /\ result = <<>>
    /\ Idle

SpecQuote == InitQuote /\ [][Next]_vars

(***************************************************************************)
(* SpecLex: Lexer::tokenize run one loop iteration at a time.              *)
(***************************************************************************)
LexChars == { "a", " ", "|", ">", "#", "=", "\n", "\r" }

LexSources == SeqsUpTo(LexChars, MaxLexLen)

\* the model stops a run of tokenize that has produced this many tokens
MaxTokens == MaxLexLen + 3

InitLex ==
    /\ source \in LexSources
    /\ pc = "tokenize"
    /\ result = <<>>
    /\ Idle

\* one iteration of the while (true) of Lexer::tokenize
TokenizeStep ==
    /\ pc = "tokenize"
    /\ Len(tokens) < MaxTokens
    /\ LET n == next_token(source, lexer)
       IN /\ tokens' = Append(tokens, n.tok)
          /\ lexer' = n.lx
          /\ pc' = IF n.tok.type = "EndOfFile" THEN "done" ELSE "tokenize"
    /\ UNCHANGED <<source, result, lines, out, err, executed, reads, history>>

NextLex == TokenizeStep

SpecLex == InitLex /\ [][NextLex]_vars

\* Lexer::tokenize as a function of the source.  When next_token yields a
\* token without moving, the loop never ends: the sequence then stops at
\* the first such token.
RECURSIVE TokenizeFrom(_, _, _)
TokenizeFrom(src, lx, acc) ==
    LET n == next_token(src, lx)
    IN IF n.tok.type = "EndOfFile" \/ n.lx = lx
       THEN Append(acc, n.tok)
       ELSE TokenizeFrom(src, n.lx, Append(acc, n.tok))

Tokenize(src) == TokenizeFrom(src, NewLexer, <<>>)

(***************************************************************************)
(* SpecPeek: one Lexer driven by any interleaving of peek_token and        *)
(* next_token calls.  `result` holds the token the latest call returned,   *)
(* `tokens` the tokens next_token returned; pc names the latest call.      *)
(***************************************************************************)
InitPeek ==
    /\ source \in LexSources
    /\ pc = "fresh"
    /\ result = <<>>
    /\ Idle

CallPeekToken ==
    /\ pc \in {"fresh", "peeked", "consumed", "reset"}
    /\ result' = <<peek_token(source, lexer).tok>>
    /\ lexer' = peek_token(source, lexer).lx
    /\ pc' = "peeked"
    /\ UNCHANGED <<source, tokens, lines, out, err, executed, reads, history>>

CallNextToken ==
    /\ pc \in {"fresh", "peeked", "consumed", "reset"}
    /\ Len(tokens) < MaxTokens
    /\ result' = <<next_token(source, lexer).tok>>
    /\ tokens' = Append(tokens, next_token(source, lexer).tok)
    /\ lexer' = next_token(source, lexer).lx
    /\ pc' = IF next_token(source, lexer).tok.type = "EndOfFile"
             THEN "drained" ELSE "consumed"
    /\ UNCHANGED <<source, lines, out, err, executed, reads, history>>

NextPeek == CallPeekToken \/ CallNextToken

SpecPeek == InitPeek /\ [][NextPeek]_vars

(***************************************************************************)
(* SpecReset: the same Lexer with reset() among the calls.  pc is "reset"  *)
(* from a reset() to the call that follows it.                             *)
(***************************************************************************)
\* Lexer::reset(): position_, line_ and column_ are set back; peeked_token_
\* is not touched
reset(lx) == [lx EXCEPT !.position = 0, !.line = 1, !.column = 1]

CallReset ==
    /\ pc \in {"fresh", "peeked", "consumed", "drained", "reset"}
    /\ lexer' = reset(lexer)
    /\ pc' = "reset"
    /\ UNCHANGED <<source, result, tokens, lines, out, err, executed, reads, history>>

InitReset ==
    /\ source \in SeqsUpTo(LexChars, MaxResetLen)
    /\ pc = "fresh"
    /\ result = <<>>
    /\ Idle

NextReset == CallPeekToken \/ CallNextToken \/ CallReset

SpecReset == InitReset /\ [][NextReset]_vars

(***************************************************************************)
(* SpecHistory: one History object (history.hpp) under any sequence of     *)
(* push and set_max calls.  A History is its vector history_, the capacity *)
(* of that vector, and max_items_.  std::vector<T>(n) and reserve(n) give  *)
(* capacity n; a push_back on a full vector reallocates to a capacity that *)
(* depends on the standard library.                                        *)
(***************************************************************************)
HISTORY_DEFAULT_SIZE == 1000

HistoryLines == {<<"a">>, <<"b">>}

\* History(max_items): max_items_(max_items), history_(max_items)
History(max_items) ==
    [max_items_ |-> max_items,
     history_ |-> [i \in 1..max_items |-> <<>>],
     capacity |-> max_items]

\* the last n items of the vector, n = min(max, size), in a buffer reserved for max
TrimmedTo(h, max) ==
    [max_items_ |-> max,
     history_ |-> IF max < Len(h.history_)
                  THEN SubSeq(h.history_, Len(h.history_) - max + 1, Len(h.history_))
                  ELSE h.history_,
     capacity |-> max]

set_max(h, new_max) ==
    TrimmedTo(h, IF new_max <= 0 THEN HISTORY_DEFAULT_SIZE ELSE new_max)

\* the capacities a reallocating push_back on a full vector of n items may
\* choose: doubling (libstdc++, libc++) or growth by half (MSVC)
Growth(n) == {IF n = 0 THEN 1 ELSE 2 * n, IF n + (n \div 2) > n THEN n + (n \div 2) ELSE n + 1}

\* push on a full vector reads begin() + 1 of an empty vector, or moves
\* size() - 1 items into a buffer of max_items_ items that is too small
PushIsUndefined(h) ==
    /\ h.capacity = Len(h.history_)
    /\ Len(h.history_) = 0 \/ Len(h.history_) - 1 > h.max_items_

\* push(line) where it is defined; cap is the capacity a reallocation chooses
push(h, line, cap) ==
    IF h.capacity = Len(h.history_)
    THEN [h EXCEPT !.history_ =
                      Append([i \in 1..h.max_items_ |->
                                 IF i < Len(h.history_) THEN h.history_[i + 1] ELSE <<>>],
                             line),
                   !.capacity = cap]
    ELSE [h EXCEPT !.history_ = Append(@, line)]

\* One History object.  pc is "history" while only push has been called on
\* it and "trimmed" once set_max has been; `lines` holds the lines handed to
\* push so far, in call order.
InitHistory ==
    /\ source = <<>> /\ result = <<>>
    /\ lexer = NewLexer /\ tokens = <<>> /\ lines = <<>>
    /\ out = <<>> /\ err = <<>> /\ executed = 0 /\ reads = 0
    /\ pc = "history"
    /\ \E max_items \in 0..MaxHistoryMax : history = <<History(max_items)>>

CallSetMax ==
    /\ pc \in {"history", "trimmed"}
    /\ pc' = "trimmed"
    /\ \E new_max \in 0..MaxHistoryMax : history' = <<set_max(history[1], new_max)>>
    /\ UNCHANGED <<source, result, lexer, tokens, lines, out, err, executed, reads>>

CallPush ==
    /\ pc \in {"history", "trimmed"}
    /\ ~PushIsUndefined(history[1])
    /\ Len(lines) < MaxHistoryItems
    /\ \E line \in HistoryLines, cap \in Growth(history[1].max_items_) :
         /\ history' = <<push(history[1], line, cap)>>
         /\ lines' = Append(lines, line)
    /\ UNCHANGED <<source, pc, result, lexer, tokens, out, err, executed, reads>>

\* an undefined push: the process ends or goes on with any vector
CallPushUndefined ==
    /\ pc \in {"history", "trimmed"}
    /\ PushIsUndefined(history[1])
    /\ pc' = "undefined"
    /\ \E items \in SeqsUpTo(HistoryLines \cup {<<>>}, MaxHistoryMax),
          cap \in 0..MaxHistoryMax :
         history' = <<[history[1] EXCEPT !.history_ = items, !.capacity = cap]>>
    /\ UNCHANGED <<source, result, lexer, tokens, lines, out, err, executed, reads>>

NextHistory == CallSetMax \/ CallPush \/ CallPushUndefined

SpecHistory == InitHistory /\ [][NextHistory]_vars

(***************************************************************************)
(* SpecRepl: the interactive loop of main().  An action runs from one      *)
(* blocking read_line to the next.  full_input is `source`, parse_result   *)
(* is `result`; both, and `lines`, keep the values of the latest statement *)
(* until the next first line replaces them.                                *)
(***************************************************************************)
ReplPieces == { <<"a">>, <<" ">>, <<"|">>, <<";">>, <<">">> }

ExitLine == <<"e", "x", "i", "t">>

ReplLines ==
    { Flatten(ps) : ps \in SeqsUpTo(ReplPieces, MaxLinePieces) } \cup {ExitLine}

InitRepl ==
    /\ source = <<>>
    /\ pc = "ps1"
    /\ result = <<>>
    /\ Idle

\* full_input.find_first_not_of(" \t") == npos
IsBlankLine(line) == \A i \in 1..Len(line) : line[i] \in {" ", "\t"}

\* a loop that hands every parse result but IncompleteInput to the interpreter
AfterParse_RunsAnyway(r, printed, code) ==
    /\ result' = <<r>>
    /\ out' = IF r.ok THEN printed \o print_program(r.val) ELSE printed
    /\ IF ~r.ok /\ r.kind = "IncompleteInput"
       THEN executed' = executed /\ err' = err /\ pc' = "ps2"
       ELSE /\ executed' = executed + 1
            /\ err' = IF r.ok THEN err ELSE Append(err, r.kind)
            /\ pc' = "ps1"

\* What main() does with a parse result once parse_line has returned: back
\* to the inner while for IncompleteInput, the error on stderr for any
\* other error, execute_program (exit code `code`) for a program.
AfterParse(r, printed, code) ==
    /\ result' = <<r>>
    /\ IF r.ok
       THEN /\ out' = printed \o print_program(r.val)
            /\ executed' = executed + 1
            /\ err' = IF code # 0 THEN Append(err, "Command exited with code") ELSE err
            /\ pc' = "ps1"
       ELSE /\ out' = printed
            /\ executed' = executed
            /\ IF r.kind = "IncompleteInput"
               THEN err' = err /\ pc' = "ps2"
               ELSE IF r.kind = "NoReturn"
                    THEN err' = err /\ pc' = "hung"
                    ELSE err' = Append(err, r.kind) /\ pc' = "ps1"

\* the PS1 prompt could not be written: break
ReplPromptFails ==
    /\ pc = "ps1"
    /\ err' = Append(err, "Error writing prompt")
    /\ pc' = "exit"
    /\ UNCHANGED <<source, result, lexer, tokens, lines, out, executed, reads, history>>

\* read_line fails at the first line (end of input): break
ReplReadFails ==
    /\ pc = "ps1"
    /\ out' = Append(out, "PS1")
    /\ err' = Append(err, "Error reading input")
    /\ reads' = reads + 1
    /\ pc' = "exit"
    /\ UNCHANGED <<source, result, lexer, tokens, lines, executed, history>>

\* the first line of a statement
ReplFirstLine ==
    /\ pc = "ps1"
    /\ reads < MaxReads
    /\ reads' = reads + 1
    /\ \E line \in ReplLines, code \in {0, 1} :
         IF line = ExitLine
         THEN /\ pc' = "exit"
              /\ out' = Append(out, "PS1")
              /\ UNCHANGED <<source, result, lines, err, executed>>
         ELSE /\ source' = line
              /\ lines' = <<line>>
              /\ IF IsBlankLine(line)
                 THEN /\ pc' = "ps1"
                      /\ out' = Append(out, "PS1")
                      /\ result' = <<>>
                      /\ UNCHANGED <<err, executed>>
                 ELSE AfterParse(parse_line(line), Append(out, "PS1"), code)
    /\ UNCHANGED <<lexer, tokens, history>>

\* the PS2 prompt could not be written, or read_line fails: the inner loop
\* breaks and the IncompleteInput error is written to stderr
ReplContinuationFails ==
    /\ pc = "ps2"
    /\ \E what \in {"Error writing prompt", "Error reading input"} :
         /\ err' = Append(Append(err, what), result[1].kind)
         /\ out' = IF what = "Error reading input" THEN Append(out, "PS2") ELSE out
         /\ reads' = IF what = "Error reading input" THEN reads + 1 ELSE reads
    /\ pc' = "ps1"
    /\ UNCHANGED <<source, result, lexer, tokens, lines, executed, history>>

\* the buffer grown without the newline between the lines
AppendLine_NoNewline(full_input, next_line) == full_input \o next_line

\* full_input += "\n"; full_input += *next_line;
AppendLine(full_input, next_line) == (full_input \o <<"\n">>) \o next_line

\* one more line after IncompleteInput: appended after "\n", parsed again
ReplContinuationLine ==
    /\ pc = "ps2"
    /\ reads < MaxReads
    /\ reads' = reads + 1
    /\ \E line \in ReplLines, code \in {0, 1} :
         /\ source' = AppendLine(source, line)
         /\ lines' = Append(lines, line)
         /\ AfterParse(parse_line(source'), Append(out, "PS2"), code)
    /\ UNCHANGED <<lexer, tokens, history>>

NextRepl ==
    \/ ReplPromptFails
    \/ ReplReadFails
    \/ ReplFirstLine
    \/ ReplContinuationFails
    \/ ReplContinuationLine

SpecRepl == InitRepl /\ [][NextRepl]_vars

(***************************************************************************)
(* Vocabulary of the properties.                                           *)
(***************************************************************************)
Res == result[1]

Returned == pc \in {"parse_line", "parse_program"}

TokenTypes(src) == [i \in 1..Len(Tokenize(src)) |-> Tokenize(src)[i].type]

\* tokens that carry no command word and no operator
Blank == {"Newline", "Comment", "EndOfFile"}

\* the tokens the lexer still yields from the state a parse left behind
Unconsumed(src, lx) == TokenizeFrom(src, lx, <<>>)

IsKind(r, kind) == ~r.ok /\ r.kind = kind

(***************************************************************************)
(* C2.  Lexer::tokenize(source) terminates for every source and returns a  *)
(* token list with exactly one EndOfFile token, as its last element; the   *)
(* lexer never stalls.  A tokenizer that cannot stall consumes at least    *)
(* one character per token other than EndOfFile, so while tokenize runs it *)
(* holds at most Len(source) tokens.                                       *)
(***************************************************************************)
C2_TokenizeTerminates ==
    /\ pc = "tokenize" => Len(tokens) <= Len(source)
    /\ pc = "done" =>
         /\ Last(tokens).type = "EndOfFile"
         /\ \A i \in 1..(Len(tokens) - 1) : tokens[i].type # "EndOfFile"

(***************************************************************************)
(* C3.  A command followed by a `|` with nothing after it except           *)
(* whitespace or a comment makes parse_line return a SyntaxError.          *)
(***************************************************************************)
\* words, then a pipe, then at most a comment
CommandThenPipe(src) ==
    LET ty == TokenTypes(src)
    IN \E k \in 2..Len(ty) :
         /\ ty[k] = "Pipe"
         /\ \A i \in 1..(k - 1) : ty[i] = "Identifier"
         /\ \A i \in (k + 1)..Len(ty) : ty[i] \in {"Comment", "EndOfFile"}

C3_TrailingPipeIsSyntaxError ==
    (pc = "parse_line" /\ CommandThenPipe(source)) => IsKind(Res, "SyntaxError")

(***************************************************************************)
(* C4.  parse_line returns IncompleteInput only when the input ends at the *)
(* operator where the failure is detected: no command word and no operator *)
(* token follows that operator.                                            *)
(***************************************************************************)
\* index of the operator token the error points at
ErrorToken(src, r) ==
    CHOOSE i \in 1..Len(Tokenize(src)) :
       /\ Tokenize(src)[i].type \in {"Pipe", "Redirect"}
       /\ Tokenize(src)[i].line = r.line
       /\ Tokenize(src)[i].column = r.column

C4_IncompleteOnlyAtEndOfInput ==
    (pc = "parse_line" /\ IsKind(Res, "IncompleteInput")) =>
        \A j \in (ErrorToken(source, Res) + 1)..Len(Tokenize(source)) :
            Tokenize(source)[j].type \in Blank

(***************************************************************************)
(* C5.  A `;` immediately followed by `|` makes parse_line return a        *)
(* SyntaxError, whether or not a statement precedes the `;`.               *)
(***************************************************************************)
SemicolonThenPipe(src) ==
    LET ty == TokenTypes(src)
    IN \E i \in 1..(Len(ty) - 1) : ty[i] = "Semicolon" /\ ty[i + 1] = "Pipe"

C5_SemicolonPipeIsSyntaxError ==
    (pc = "parse_line" /\ SemicolonThenPipe(source)) => IsKind(Res, "SyntaxError")

(***************************************************************************)
(* C6.  When the redirection operator of a command is followed by the end  *)
(* of input or a newline instead of a target word, parse_line returns a    *)
(* SyntaxError, never IncompleteInput, wherever the command stands.        *)
(***************************************************************************)
\* the input starts with a command word, and some command word is followed
\* by a redirection operator that has no target
RedirectWithoutTarget(src) ==
    LET ty == TokenTypes(src)
    IN /\ ty[1] = "Identifier"
       /\ \E i \in 1..(Len(ty) - 2) :
            /\ ty[i] = "Identifier"
            /\ ty[i + 1] = "Redirect"
            /\ ty[i + 2] \in {"EndOfFile", "Newline"}

C6_RedirectWithoutTargetIsSyntaxError ==
    (pc = "parse_line" /\ RedirectWithoutTarget(source)) => IsKind(Res, "SyntaxError")

(***************************************************************************)
(* C7.  parse_line never returns success while a token other than a        *)
(* newline or EndOfFile is left unconsumed, and when tokens are left over  *)
(* after its one statement it returns a SyntaxError.  (A comment left      *)
(* unread is let pass here: it holds no command word and no operator.)     *)
(***************************************************************************)
C7_LeftoverTokensAreSyntaxErrors ==
    pc = "parse_line" =>
       /\ Res.ok =>
            \A i \in 1..Len(Unconsumed(source, Res.lx)) :
                Unconsumed(source, Res.lx)[i].type \in Blank
       /\ (~Res.ok /\ ~check(source, NewLexer, {"EndOfFile", "Newline"})
             /\ parse_statement(source, NewLexer).ok)
            => Res.kind = "SyntaxError"

(***************************************************************************)
(* C8.  parse_line accepts a let assignment followed by `;` and a command, *)
(* and the tree holds the assignment and then the command.                 *)
(***************************************************************************)
\* let <name> = <value> ; <word>+
LetThenCommand(src) ==
    LET ty == TokenTypes(src)
    IN /\ Len(ty) >= 7
       /\ SubSeq(ty, 1, 5) = <<"Let", "Identifier", "Equals", "Identifier", "Semicolon">>
       /\ \A i \in 6..(Len(ty) - 1) : ty[i] = "Identifier"

\* the statements of a tree in source order, sequences opened up
RECURSIVE Leaves(_)
Leaves(stmts) ==
    IF stmts = <<>> THEN <<>>
    ELSE (IF Head(stmts).node = "Sequence"
          THEN Leaves(Head(stmts).statements)
          ELSE <<Head(stmts)>>) \o Leaves(Tail(stmts))

C8_LetThenCommandAccepted ==
    (pc = "parse_line" /\ LetThenCommand(source)) =>
        /\ Res.ok
        /\ Len(Leaves(Res.val)) = 2
        /\ Leaves(Res.val)[1].node = "Assignment"
        /\ Leaves(Res.val)[1].variable = Tokenize(source)[2].value
        /\ Leaves(Res.val)[2].node = "Command"
        /\ Leaves(Res.val)[2].command_name.text = Tokenize(source)[6].value

(***************************************************************************)
(* C9.  Every SequenceNode of a parse result has at least 2 elements.      *)
(***************************************************************************)
RECURSIVE SequencesHaveTwo(_)
SequencesHaveTwo(stmts) ==
    \A i \in 1..Len(stmts) :
        stmts[i].node = "Sequence" =>
            /\ Len(stmts[i].statements) >= 2
            /\ SequencesHaveTwo(stmts[i].statements)

C9_SequenceHasAtLeastTwo ==
    (Returned /\ Res.ok) => SequencesHaveTwo(Res.val)

(***************************************************************************)
(* C10.  A single command with no `|` and no `;` parses to a bare          *)
(* CommandNode: no statement of the program is a PipelineNode or a         *)
(* SequenceNode, and parse_line returns the command as the only statement. *)
(***************************************************************************)
\* the source starts with a command word and holds no pipe and no semicolon
SingleCommandSource(src) ==
    /\ \A i \in 1..Len(src) : src[i] \notin {"|", ";"}
    /\ TokenTypes(src)[1] = "Identifier"

C10_SingleCommandIsBare ==
    (Returned /\ Res.ok /\ SingleCommandSource(source)) =>
        /\ Len(Res.val) >= 1
        /\ Res.val[1].node = "Command"
        /\ \A i \in 1..Len(Res.val) : Res.val[i].node \notin {"Pipeline", "Sequence"}
        /\ pc = "parse_line" => Len(Res.val) = 1

C10_Witness ==
    /\ pc = "parse_line" /\ Res.ok /\ SingleCommandSource(source)
    /\ Res.val[1].arguments # <<>>
    /\ Res.val[1].redirections # <<>>

(***************************************************************************)
(* C1.  Continuation retry converges: when the first line is a command     *)
(* that fails only for its trailing `|`, and the next line is a valid      *)
(* command, parse_line on the whole buffer succeeds with a Pipeline of     *)
(* both commands and the continuation loop ends.                           *)
(***************************************************************************)
ValidCommand(line) ==
    LET r == parse_line(line)
    IN r.ok /\ Len(r.val) = 1 /\ r.val[1].node = "Command"

C1_ContinuationConverges ==
    ( /\ Len(lines) = 2
      /\ result # <<>>
      /\ CommandThenPipe(lines[1])
      /\ IsKind(parse_line(lines[1]), "IncompleteInput")
      /\ ValidCommand(lines[2]) )
    => /\ pc = "ps1"
       /\ Res.ok
       /\ Len(Res.val) = 1
       /\ Res.val[1].node = "Pipeline"
       /\ Len(Res.val[1].commands) = 2
       /\ Res.val[1].commands[1].command_name.text = Tokenize(lines[1])[1].value
       /\ Res.val[1].commands[2] = parse_line(lines[2]).val[1]

(***************************************************************************)
(* C11.  An input of n >= 2 commands separated by `|` yields exactly one   *)
(* PipelineNode whose command list has exactly n commands in source order, *)
(* and a pipeline never contains another pipeline.  The commands are plain *)
(* words (no quote character); the i-th command of the pipeline is the     *)
(* command that the i-th segment of the source parses to on its own.       *)
(***************************************************************************)
\* the segments of src between the occurrences of the character c
RECURSIVE SplitOn(_, _, _)
SplitOn(src, c, seg) ==
    IF src = <<>> THEN <<seg>>
    ELSE IF Head(src) = c
         THEN <<seg>> \o SplitOn(Tail(src), c, <<>>)
         ELSE SplitOn(Tail(src), c, Append(seg, Head(src)))

\* only words: the tokens are Identifiers up to the EndOfFile
OnlyWords(src) ==
    LET ty == TokenTypes(src)
    IN /\ Len(ty) >= 2
       /\ \A i \in 1..(Len(ty) - 1) : ty[i] = "Identifier"

\* n >= 2 commands of plain words separated by `|`
PipedCommands(src) ==
    /\ \A i \in 1..Len(src) : src[i] # "\""
    /\ Len(SplitOn(src, "|", <<>>)) >= 2
    /\ \A i \in 1..Len(SplitOn(src, "|", <<>>)) : OnlyWords(SplitOn(src, "|", <<>>)[i])

\* no PipelineNode of the statements holds anything but CommandNodes
RECURSIVE PipelinesAreFlat(_)
PipelinesAreFlat(stmts) ==
    \A i \in 1..Len(stmts) :
        /\ stmts[i].node = "Pipeline" =>
             \A j \in 1..Len(stmts[i].commands) : stmts[i].commands[j].node = "Command"
        /\ stmts[i].node = "Sequence" => PipelinesAreFlat(stmts[i].statements)

C11_PipelineHoldsEveryCommand ==
    /\ (Returned /\ Res.ok) => PipelinesAreFlat(Res.val)
    /\ (Returned /\ PipedCommands(source)) =>
          /\ Res.ok
          /\ Len(Res.val) = 1
          /\ Res.val[1].node = "Pipeline"
          /\ Len(Res.val[1].commands) = Len(SplitOn(source, "|", <<>>))
          /\ \A i \in 1..Len(Res.val[1].commands) :
                Res.val[1].commands[i] = parse_line(SplitOn(source, "|", <<>>)[i]).val[1]

\* two commands, only the first with an argument
C11_Witness ==
    /\ pc = "parse_line" /\ PipedCommands(source) /\ Res.ok
    /\ Len(Res.val[1].commands) = 2
    /\ Res.val[1].commands[1].arguments # <<>>
    /\ Res.val[1].commands[2].arguments = <<>>

(***************************************************************************)
(* C12.  parse_line returns an error of kind SyntaxError for an input that *)
(* starts with `|` or with `;`, and for `||`, `;;` and `| ;` after a       *)
(* command.  The command is a run of plain words at the start of the input *)
(* and the two operators are consecutive tokens.                           *)
(***************************************************************************)
StartsWithSeparator(src) == TokenTypes(src)[1] \in {"Pipe", "Semicolon"}

\* the token types from the first operator on, after a command of plain words
AfterFirstCommand(ty) ==
    LET k == CHOOSE i \in 1..Len(ty) : ty[i] # "Identifier"
    IN IF k = 1 THEN <<>> ELSE SubSeq(ty, k, Len(ty))

DoubledSeparator(src) ==
    /\ \A i \in 1..Len(src) : src[i] # "\""
    /\ Len(AfterFirstCommand(TokenTypes(src))) >= 2
    /\ SubSeq(AfterFirstCommand(TokenTypes(src)), 1, 2) \in
          {<<"Pipe", "Pipe">>, <<"Semicolon", "Semicolon">>, <<"Pipe", "Semicolon">>}

C12_MisplacedSeparatorIsSyntaxError ==
    (pc = "parse_line" /\ (StartsWithSeparator(source) \/ DoubledSeparator(source)))
        => IsKind(Res, "SyntaxError")

\* `a | ;` followed by more input
C12_Witness ==
    /\ pc = "parse_line"
    /\ DoubledSeparator(source)
    /\ SubSeq(AfterFirstCommand(TokenTypes(source)), 1, 2) = <<"Pipe", "Semicolon">>
    /\ Len(TokenTypes(source)) > 4
    /\ IsKind(Res, "SyntaxError")

(***************************************************************************)
(* C13.  `let <name> =` with no value before the end of input, a newline,  *)
(* a `;` or a comment is accepted by parse_line and yields one             *)
(* AssignmentNode for <name> whose value is the empty string.  The input   *)
(* ends with the assignment: after the `=` come only comments, then the    *)
(* end of input, or one newline or one `;` and the end of input.           *)
(***************************************************************************)
\* ty without its leading Comment tokens
RECURSIVE DropComments(_)
DropComments(ty) ==
    IF ty # <<>> /\ Head(ty) = "Comment" THEN DropComments(Tail(ty)) ELSE ty

LetWithoutValue(src) ==
    LET ty == TokenTypes(src)
    IN /\ Len(ty) >= 4
       /\ SubSeq(ty, 1, 3) = <<"Let", "Identifier", "Equals">>
       /\ DropComments(SubSeq(ty, 4, Len(ty))) \in
             {<<"EndOfFile">>, <<"Newline", "EndOfFile">>, <<"Semicolon", "EndOfFile">>}

C13_LetWithoutValueIsEmptyAssignment ==
    (pc = "parse_line" /\ LetWithoutValue(source)) =>
        /\ Res.ok
        /\ Res.val = <<make_assignment(Tokenize(source)[2].value, <<>>)>>

\* the value is missing before a comment that a newline ends
C13_Witness ==
    /\ pc = "parse_line"
    /\ LetWithoutValue(source)
    /\ TokenTypes(source) = <<"Let", "Identifier", "Equals", "Comment", "Newline", "EndOfFile">>
    /\ Res.ok
    /\ Res.val[1].value = <<>>

(***************************************************************************)
(* C14.  parse_line and parse_program succeed with a ProgramNode of zero   *)
(* statements on the empty input and on every input that holds only        *)
(* spaces, tabs and newlines.                                              *)
(***************************************************************************)
OnlyWhiteSpace(src) == \A i \in 1..Len(src) : src[i] \in {" ", "\t", "\n"}

C14_WhiteSpaceIsEmptyProgram ==
    (Returned /\ OnlyWhiteSpace(source)) => (Res.ok /\ Res.val = <<>>)

\* parse_line on a source with a space, a tab and a newline
C14_Witness ==
    /\ pc = "parse_line"
    /\ OnlyWhiteSpace(source)
    /\ {" ", "\t", "\n"} \subseteq {source[i] : i \in 1..Len(source)}
    /\ source[1] # "\n"
    /\ Res.ok /\ Res.val = <<>>

(***************************************************************************)
(* C15.  When `&` follows the last command of a pipeline, only that last   *)
(* CommandNode has background=true and every earlier command of the        *)
(* pipeline has background=false.  The source is a pipeline of commands of *)
(* plain words with one `&`, after its last command.                       *)
(***************************************************************************)
\* src without the spaces at its end
RECURSIVE TrimRight(_)
TrimRight(src) ==
    IF src # <<>> /\ Last(src) = " " THEN TrimRight(Front(src)) ELSE src

BackgroundOnLast(src) ==
    /\ TrimRight(src) # <<>>
    /\ Last(TrimRight(src)) = "&"
    /\ PipedCommands(Front(TrimRight(src)))

C15_BackgroundOnLastOnly ==
    (Returned /\ BackgroundOnLast(source)) =>
        /\ Res.ok
        /\ Len(Res.val) = 1
        /\ Res.val[1].node = "Pipeline"
        /\ \A i \in 1..Len(Res.val[1].commands) :
              Res.val[1].commands[i].background = (i = Len(Res.val[1].commands))

\* two commands and a space before the `&`
C15_Witness ==
    /\ pc = "parse_line"
    /\ BackgroundOnLast(source)
    /\ source[Len(source) - 1] = " "
    /\ Res.ok
    /\ Len(Res.val[1].commands) = 2
    /\ Res.val[1].commands[2].background
    /\ ~Res.val[1].commands[1].background

(***************************************************************************)
(* C16.  Redirections attach to the command they follow, not to the        *)
(* pipeline, and a command's redirection list holds them in source order,  *)
(* each with the kind of its operator (`<` Input, `>` OutputTruncate, `>>` *)
(* OutputAppend) and its target word.  The source is one command or a      *)
(* pipeline of commands, each a run of words followed by pairs of an       *)
(* operator and a target word.                                             *)
(***************************************************************************)
KindOfOperator(lexeme) ==
    CASE lexeme = <<"<">> -> "Input"
      [] lexeme = <<">">> -> "OutputTruncate"
      [] lexeme = <<">", ">">> -> "OutputAppend"

\* the index of the first token of toks that is not an Identifier
FirstNonWord(toks) == CHOOSE i \in 1..Len(toks) : toks[i].type # "Identifier"

\* toks from index k on are pairs of a Redirect and an Identifier, then EndOfFile
RECURSIVE OperatorTargetPairs(_, _)
OperatorTargetPairs(toks, k) ==
    IF toks[k].type = "EndOfFile" THEN TRUE
    ELSE /\ toks[k].type = "Redirect"
         /\ toks[k + 1].type = "Identifier"
         /\ OperatorTargetPairs(toks, k + 2)

\* the redirections the tokens of one command spell, from index k on
RECURSIVE SpelledRedirections(_, _)
SpelledRedirections(toks, k) ==
    IF toks[k].type = "EndOfFile" THEN <<>>
    ELSE <<[kind |-> KindOfOperator(toks[k].value),
            target |-> Word(toks[k + 1].value, FALSE, TRUE)]>>
         \o SpelledRedirections(toks, k + 2)

CommandWithRedirections(seg) ==
    /\ FirstNonWord(Tokenize(seg)) > 1
    /\ OperatorTargetPairs(Tokenize(seg), FirstNonWord(Tokenize(seg)))

RedirectedCommands(src) ==
    \A i \in 1..Len(SplitOn(src, "|", <<>>)) :
        CommandWithRedirections(SplitOn(src, "|", <<>>)[i])

\* the commands of a result: those of its pipeline, or its single command
CommandsOf(stmt) == IF stmt.node = "Pipeline" THEN stmt.commands ELSE <<stmt>>

C16_RedirectionsFollowTheirCommand ==
    (Returned /\ RedirectedCommands(source)) =>
        /\ Res.ok
        /\ Len(Res.val) = 1
        /\ Res.val[1].node \in {"Command", "Pipeline"}
        /\ Len(CommandsOf(Res.val[1])) = Len(SplitOn(source, "|", <<>>))
        /\ \A i \in 1..Len(CommandsOf(Res.val[1])) :
              /\ CommandsOf(Res.val[1])[i].node = "Command"
              /\ CommandsOf(Res.val[1])[i].redirections =
                    SpelledRedirections(Tokenize(SplitOn(source, "|", <<>>)[i]),
                        FirstNonWord(Tokenize(SplitOn(source, "|", <<>>)[i])))

\* a pipeline whose first command reads and whose second command appends
C16_Witness ==
    /\ pc = "parse_line"
    /\ RedirectedCommands(source)
    /\ Res.ok
    /\ Res.val[1].node = "Pipeline"
    /\ Len(Res.val[1].commands) = 2
    /\ Len(Res.val[1].commands[1].redirections) = 1
    /\ Res.val[1].commands[1].redirections[1].kind = "Input"
    /\ Len(Res.val[1].commands[2].redirections) = 1
    /\ Res.val[1].commands[2].redirections[1].kind = "OutputAppend"

(***************************************************************************)
(* C17.  For any interleaving of peek_token and next_token calls on one    *)
(* Lexer, two peeks with no consume between them return the same token,    *)
(* next_token after a peek returns that buffered token, and the tokens     *)
(* returned by successive next_token calls are those of tokenize(source)   *)
(* in order.  The last part is stated for the sources on which tokenize    *)
(* returns.                                                                *)
(***************************************************************************)
TokenizeReturns(src) == Last(Tokenize(src)).type = "EndOfFile"

IsPrefix(s, t) == Len(s) <= Len(t) /\ SubSeq(t, 1, Len(s)) = s

PeekNextAgree ==
    /\ pc = "peeked" => result' = result
    /\ TokenizeReturns(source) =>
          /\ IsPrefix(tokens', Tokenize(source))
          /\ pc' = "drained" => tokens' = Tokenize(source)

C17_PeekAndNextYieldTokenize == [][PeekNextAgree]_vars

\* a word was consumed, then a later token peeked, on a source of three tokens or more
C17_Witness ==
    /\ pc = "peeked"
    /\ Len(tokens) >= 2
    /\ TokenizeReturns(source)
    /\ lexer.peeked = <<Tokenize(source)[Len(tokens) + 1]>>
    /\ result[1].type # "EndOfFile"

(***************************************************************************)
(* C18.  In the REPL, each time parse_line returns IncompleteInput the     *)
(* loop writes the PS2 prompt, reads one more line, appends `\n` and that  *)
(* line to the accumulated buffer, and calls parse_line again on the whole *)
(* buffer; it repeats until the result is not IncompleteInput or a read or *)
(* prompt write fails.                                                     *)
(***************************************************************************)
\* the loop is at the PS2 prompt exactly as long as the latest result is
\* IncompleteInput and no write or read has failed
AtContinuation == pc = "ps2"

\* one round of the inner loop: prompt, read, append, parse again
ContinuationRound ==
    /\ out' = Append(out, "PS2") \o (IF Res'.ok THEN print_program(Res'.val) ELSE <<>>)
    /\ reads' = reads + 1
    /\ Len(lines') = Len(lines) + 1
    /\ source' = (source \o <<"\n">>) \o Last(lines')
    /\ Res' = parse_line(source')
    /\ (pc' = "ps2") = IsKind(Res', "IncompleteInput")

\* the prompt write or the read failed: the loop is left with the error
ContinuationBroken ==
    /\ Len(err') > Len(err)
    /\ err'[Len(err) + 1] \in {"Error writing prompt", "Error reading input"}
    /\ pc' = "ps1"
    /\ UNCHANGED <<source, result, lines>>

ContinuationStep ==
    /\ pc' = "ps2" => IsKind(Res', "IncompleteInput")
    /\ (pc \in {"ps1", "ps2"} /\ result' # result /\ result' # <<>>
           /\ IsKind(Res', "IncompleteInput")) => pc' = "ps2"
    /\ AtContinuation => (ContinuationRound \/ ContinuationBroken)

C18_IncompleteInputReadsOn == [][ContinuationStep]_vars

\* two continuation lines were read and the buffer is still incomplete
C18_Witness ==
    /\ pc = "ps2"
    /\ Len(lines) = 3
    /\ source = (((lines[1] \o <<"\n">>) \o lines[2]) \o <<"\n">>) \o lines[3]
    /\ IsKind(Res, "IncompleteInput")

(***************************************************************************)
(* C19.  In the REPL, when parsing a buffer ends with an error the loop    *)
(* writes the error to stderr, never calls the interpreter for that        *)
(* buffer, and goes on to prompt for the next line; the interpreter runs   *)
(* only on a successfully parsed program.                                  *)
(***************************************************************************)
\* this step parsed the buffer and the parse ended with an error that is
\* not IncompleteInput
ParseEndsWithError ==
    /\ reads' = reads + 1
    /\ pc' # "exit"
    /\ result' # <<>>
    /\ IsKind(Res', "SyntaxError")

\* this step left the continuation loop on a failed write or read, with
\* the IncompleteInput error still standing
ContinuationEndsWithError == pc = "ps2" /\ pc' # "ps2" /\ result' = result

ErrorStep ==
    /\ ParseEndsWithError =>
          /\ err' = Append(err, "SyntaxError")
          /\ executed' = executed
          /\ pc' = "ps1"
    /\ ContinuationEndsWithError =>
          /\ Last(err') = "IncompleteInput"
          /\ Len(err') > Len(err)
          /\ executed' = executed
          /\ pc' = "ps1"
    /\ executed' # executed =>
          /\ executed' = executed + 1
          /\ result' # <<>>
          /\ Res'.ok
          /\ Res' = parse_line(source')
          /\ pc' = "ps1"

C19_ErrorsAreReportedNotRun == [][ErrorStep]_vars

\* a syntax error was reported, and a later line was parsed and run
C19_Witness ==
    /\ pc = "ps1"
    /\ err = <<"SyntaxError">>
    /\ executed = 1
    /\ result # <<>>
    /\ Res.ok

(***************************************************************************)
(* C20.  In a command's argument list, a run of word tokens that begins    *)
(* with a token starting with `"` and ends with the first token ending in  *)
(* an unescaped `"` becomes one argument Word whose text is those tokens   *)
(* joined by single spaces with the two outer quotes removed and           *)
(* quoted=true; an argument that does not start with `"` has quoted=false. *)
(* A quote is escaped when an odd number of backslashes stands before it;  *)
(* a token that is a lone `"` opens a run and does not close it.  The      *)
(* sources are a command name followed by words, every run closed.         *)
(***************************************************************************)
\* the number of backslashes at the end of w
RECURSIVE TrailingBackslashes(_)
TrailingBackslashes(w) ==
    IF w # <<>> /\ Last(w) = "\\" THEN 1 + TrailingBackslashes(Front(w)) ELSE 0

EndsInUnescapedQuote(w) ==
    /\ w # <<>>
    /\ Last(w) = "\""
    /\ TrailingBackslashes(Front(w)) % 2 = 0

\* the token at j closes the run that the token at k opens
ClosesRun(words, k, j) ==
    /\ j >= k
    /\ EndsInUnescapedQuote(words[j])
    /\ j = k => Len(words[k]) >= 2

RunIsClosed(words, k) == \E j \in k..Len(words) : ClosesRun(words, k, j)

RunEnd(words, k) ==
    CHOOSE j \in k..Len(words) :
        ClosesRun(words, k, j) /\ \A i \in k..(j - 1) : ~ClosesRun(words, k, i)

\* words[k..j] joined by single spaces
RECURSIVE JoinWords(_, _, _)
JoinWords(words, k, j) ==
    IF k = j THEN words[k] ELSE (words[k] \o <<" ">>) \o JoinWords(words, k + 1, j)

\* every run of the words from k on is closed
RECURSIVE RunsAreClosed(_, _)
RunsAreClosed(words, k) ==
    IF k > Len(words) THEN TRUE
    ELSE IF is_quoted(words[k])
         THEN RunIsClosed(words, k) /\ RunsAreClosed(words, RunEnd(words, k) + 1)
         ELSE RunsAreClosed(words, k + 1)

\* the arguments the words from k on spell
RECURSIVE SpelledArguments(_, _)
SpelledArguments(words, k) ==
    IF k > Len(words) THEN <<>>
    ELSE IF is_quoted(words[k])
         THEN <<Word(Front(Tail(JoinWords(words, k, RunEnd(words, k)))), TRUE, TRUE)>>
              \o SpelledArguments(words, RunEnd(words, k) + 1)
         ELSE <<Word(words[k], FALSE, TRUE)>> \o SpelledArguments(words, k + 1)

\* the values of the tokens of src between the command name and EndOfFile
ArgumentWords(src) ==
    [i \in 1..(Len(Tokenize(src)) - 2) |-> Tokenize(src)[i + 1].value]

CommandWithClosedRuns(src) ==
    /\ OnlyWords(src)
    /\ RunsAreClosed(ArgumentWords(src), 1)

C20_QuotedRunIsOneArgument ==
    (Returned /\ CommandWithClosedRuns(source)) =>
        /\ Res.ok
        /\ Len(Res.val) = 1
        /\ Res.val[1].node = "Command"
        /\ Res.val[1].arguments = SpelledArguments(ArgumentWords(source), 1)

(***************************************************************************)
(* C21.  A call of parse_line(source) or parse_program(source) has no      *)
(* effect other than returning its result: it changes no state that        *)
(* outlives the call and writes nothing to any output stream, whether the  *)
(* parse succeeds or fails.                                                *)
(***************************************************************************)
\* a step that makes the call leaves everything but the result as it was
CallHasNoEffect ==
    pc = "start" => UNCHANGED <<source, lexer, tokens, lines, out, err, executed, reads, history>>

C21_ParseHasNoEffect == [][CallHasNoEffect]_vars

(***************************************************************************)
(* C22.  The printer renders a CommandNode at nesting level n as a line    *)
(* `Command: <name>` (with ` &` appended when background is set) indented  *)
(* by 2n spaces, then, only if it has arguments, one `Args:` line at level *)
(* n+1 with the words joined by single spaces, then, only if it has        *)
(* redirections, a `Redirections:` line at level n+1 followed by one       *)
(* `<op> <target>` line per redirection at level n+2 in list order;        *)
(* Pipeline and Sequence print a header line and each child one level      *)
(* deeper.  Stated for what parse_line and parse_program print for a       *)
(* program of commands, pipelines and sequences.                           *)
(***************************************************************************)
\* one line of output at nesting level n
RenderedLine(n, text) == [i \in 1..(2 * n) |-> " "] \o text \o <<"\n">>

\* the texts of the words joined by single spaces
RECURSIVE SpaceJoined(_)
SpaceJoined(words) ==
    IF Len(words) = 1 THEN words[1].text
    ELSE (words[1].text \o <<" ">>) \o SpaceJoined(Tail(words))

OperatorOf(kind) ==
    CASE kind = "Input" -> <<"<">>
      [] kind = "OutputTruncate" -> <<">">>
      [] kind = "OutputAppend" -> <<">", ">">>

RenderedCommand(cmd, n) ==
    RenderedLine(n, <<"C", "o", "m", "m", "a", "n", "d", ":", " ">> \o cmd.command_name.text
                     \o (IF cmd.background THEN <<" ", "&">> ELSE <<>>))
    \o (IF cmd.arguments = <<>> THEN <<>>
        ELSE RenderedLine(n + 1, <<"A", "r", "g", "s", ":", " ">> \o SpaceJoined(cmd.arguments)))
    \o (IF cmd.redirections = <<>> THEN <<>>
        ELSE RenderedLine(n + 1, <<"R", "e", "d", "i", "r", "e", "c", "t", "i", "o", "n", "s", ":">>)
             \o Flatten([i \in 1..Len(cmd.redirections) |->
                   RenderedLine(n + 2, (OperatorOf(cmd.redirections[i].kind) \o <<" ">>)
                                       \o cmd.redirections[i].target.text)]))

RECURSIVE Rendered(_, _)
Rendered(stmt, n) ==
    CASE stmt.node = "Command" -> RenderedCommand(stmt, n)
      [] stmt.node = "Pipeline" ->
           RenderedLine(n, <<"P", "i", "p", "e", "l", "i", "n", "e", ":">>)
           \o Flatten([i \in 1..Len(stmt.commands) |-> Rendered(stmt.commands[i], n + 1)])
      [] stmt.node = "Sequence" ->
           RenderedLine(n, <<"S", "e", "q", "u", "e", "n", "c", "e", ":">>)
           \o Flatten([i \in 1..Len(stmt.statements) |-> Rendered(stmt.statements[i], n + 1)])

\* the characters of the strings written to a stream
Spelling(chunk) ==
    CASE chunk = "  " -> <<" ", " ">>
      [] chunk = "Command: " -> <<"C", "o", "m", "m", "a", "n", "d", ":", " ">>
      [] chunk = " &" -> <<" ", "&">>
      [] chunk = "Args:" -> <<"A", "r", "g", "s", ":">>
      [] chunk = "Redirections:\n" ->
           <<"R", "e", "d", "i", "r", "e", "c", "t", "i", "o", "n", "s", ":", "\n">>
      [] chunk = "< " -> <<"<", " ">>
      [] chunk = "> " -> <<">", " ">>
      [] chunk = ">> " -> <<">", ">", " ">>
      [] chunk = "Pipeline:\n" -> <<"P", "i", "p", "e", "l", "i", "n", "e", ":", "\n">>
      [] chunk = "Sequence:\n" -> <<"S", "e", "q", "u", "e", "n", "c", "e", ":", "\n">>
      [] OTHER -> <<chunk>>

Characters(stream) == Flatten([i \in 1..Len(stream) |-> Spelling(stream[i])])

\* only commands, pipelines and sequences of them
RECURSIVE OnlyCommandNodes(_)
OnlyCommandNodes(stmts) ==
    \A i \in 1..Len(stmts) :
        /\ stmts[i].node \in {"Command", "Pipeline", "Sequence"}
        /\ stmts[i].node = "Sequence" => OnlyCommandNodes(stmts[i].statements)

C22_PrinterLayout ==
    (Returned /\ Res.ok /\ OnlyCommandNodes(Res.val)) =>
        Characters(out) = Flatten([i \in 1..Len(Res.val) |-> Rendered(Res.val[i], 0)])

\* a sequence that holds a pipeline whose last command runs in the background
C22_Witness ==
    /\ Returned /\ Res.ok /\ OnlyCommandNodes(Res.val)
    /\ Len(Res.val) = 1
    /\ Res.val[1].node = "Sequence"
    /\ Res.val[1].statements[1].node = "Pipeline"
    /\ Res.val[1].statements[1].commands[2].background
    /\ Len(out) > 6

\* C23: a newly constructed History is empty, and after k push calls on it
\* and no other call, items() holds exactly the k pushed lines in push order
\* (so size() is k).
C23_PushesAreKept == pc = "history" => history[1].history_ = lines

\* C29: after any sequence of push and set_max calls, size() never exceeds
\* max().
C29_SizeWithinMax ==
    pc \in {"history", "trimmed"} => Len(history[1].history_) <= history[1].max_items_

(***************************************************************************)
(* The arena-based parser of namespace shell: Lexer::lex turns a line into *)
(* a token vector that always ends with End, Parser::parse turns the       *)
(* vector into list items over an arena of nodes.  Token positions are     *)
(* byte offsets from 0; arena nodes are numbered from 1 here.              *)
(***************************************************************************)
is_space(c) == c \in {" ", "\t", "\r"}

LexToken(kind, pos) == [kind |-> kind, pos |-> pos, text |-> <<>>, error_msg |-> ""]

\* flush_word(pos_end)
flush_word(toks, cur, pos_end) ==
    IF cur # <<>>
    THEN Append(toks, [kind |-> "Word", pos |-> pos_end - Len(cur), text |-> cur,
                       error_msg |-> ""])
    ELSE toks

\* err(pos, msg), followed by the End token
LexError(toks, cur, n, msg) ==
    Append(Append(flush_word(toks, cur, n),
                  [kind |-> "Error", pos |-> n, text |-> <<>>, error_msg |-> msg]),
           LexToken("End", n))

\* the token kind of an operator character, alone and doubled
OperatorKinds(c) ==
    CASE c = "&" -> <<"Amp", "AndIf">>
      [] c = "|" -> <<"Pipe", "OrIf">>
      [] c = ">" -> <<"ROut", "ROutApp">>
      [] c = "<" -> <<"RIn", "Heredoc">>

RECURSIVE LexFrom(_, _, _, _, _)
\* the loop of Lexer::lex from byte i (from 0) in state st, with the word
\* under construction cur and the tokens so far toks
LexFrom(in, i, st, cur, toks) ==
    IF i >= Len(in)
    THEN CASE st = "InSq" -> LexError(toks, cur, Len(in), "unterminated single quote")
           [] st = "InDq" -> LexError(toks, cur, Len(in), "unterminated double quote")
           [] st \in {"EscNormal", "EscDq"} -> LexError(toks, cur, Len(in), "dangling escape")
           [] OTHER -> Append(flush_word(toks, cur, Len(in)), LexToken("End", Len(in)))
    ELSE CASE st = "Normal" ->
                CASE in[i + 1] = "\n" ->
                       LexFrom(in, i + 1, st, <<>>,
                               Append(flush_word(toks, cur, i), LexToken("Eol", i)))
                  [] is_space(in[i + 1]) ->
                       LexFrom(in, i + 1, st, <<>>, flush_word(toks, cur, i))
                  [] in[i + 1] = "'" -> LexFrom(in, i + 1, "InSq", cur, toks)
                  [] in[i + 1] = "\"" -> LexFrom(in, i + 1, "InDq", cur, toks)
                  [] in[i + 1] = "\\" -> LexFrom(in, i + 1, "EscNormal", cur, toks)
                  [] in[i + 1] \in {"&", "|", ">", "<"} ->
                       IF i + 1 < Len(in) /\ in[i + 2] = in[i + 1]
                       THEN LexFrom(in, i + 2, st, <<>>,
                                    Append(flush_word(toks, cur, i),
                                           LexToken(OperatorKinds(in[i + 1])[2], i)))
                       ELSE LexFrom(in, i + 1, st, <<>>,
                                    Append(flush_word(toks, cur, i),
                                           LexToken(OperatorKinds(in[i + 1])[1], i)))
                  [] in[i + 1] = ";" ->
                       LexFrom(in, i + 1, st, <<>>,
                               Append(flush_word(toks, cur, i), LexToken("Semi", i)))
                  [] OTHER -> LexFrom(in, i + 1, st, Append(cur, in[i + 1]), toks)
           [] st = "InSq" ->
                IF in[i + 1] = "'"
                THEN LexFrom(in, i + 1, "Normal", cur, toks)
                ELSE LexFrom(in, i + 1, st, Append(cur, in[i + 1]), toks)
           [] st = "InDq" ->
                CASE in[i + 1] = "\"" -> LexFrom(in, i + 1, "Normal", cur, toks)
                  [] in[i + 1] = "\\" -> LexFrom(in, i + 1, "EscDq", cur, toks)
                  [] OTHER -> LexFrom(in, i + 1, st, Append(cur, in[i + 1]), toks)
           [] st = "EscNormal" -> LexFrom(in, i + 1, "Normal", Append(cur, in[i + 1]), toks)
           [] st = "EscDq" -> LexFrom(in, i + 1, "InDq", Append(cur, in[i + 1]), toks)

\* Lexer::lex(in): the token vector (LexResult::ok is FALSE exactly when it
\* holds an Error token)
lex(in) == LexFrom(in, 0, "Normal", <<>>, <<>>)

is_list_stop(k) == k \in {"Semi", "Amp", "Eol", "End", "Error"}

\* binding powers <<left, right>>
bp(k) ==
    CASE k = "Pipe" -> <<70, 71>>
      [] k \in {"AndIf", "OrIf"} -> <<50, 51>>
      [] OTHER -> <<-1, -1>>

\* a parsing function's failure: the ParseError, the cursor and the arena as they are
make_err(tok, msg, i, arena) ==
    [err |-> <<[pos |-> tok.pos, msg |-> msg]>>, i |-> i, arena |-> arena, node |-> 0]

ExprOk(i, arena, node) == [err |-> <<>>, i |-> i, arena |-> arena, node |-> node]

RedirKindOf(k) ==
    CASE k = "ROut" -> "OutTrunc"
      [] k = "ROutApp" -> "OutAppend"
      [] k = "RIn" -> "In"
      [] k = "Heredoc" -> "Heredoc"

RECURSIVE SimpleCommandLoop(_, _, _, _, _, _)
\* what parse_simple_command does once the token at the cursor is not a Word
\* and parse_redir has returned without error: break or fail
SimpleCommandStop(toks, i, arena, argv, redirs, saw_word) ==
    IF toks[i].kind \in {"Pipe", "AndIf", "OrIf"} \/ is_list_stop(toks[i].kind)
    THEN IF ~saw_word
         THEN make_err(toks[i], "expected command word", i, arena)
         ELSE ExprOk(i, Append(arena, [type |-> "Command", argv |-> argv, redirs |-> redirs]),
                     Len(arena) + 1)
    ELSE IF toks[i].kind = "Error"
         THEN make_err(toks[i], toks[i].error_msg, i, arena)
         ELSE make_err(toks[i], "unexpected token in command", i, arena)

\* parse_redir at the cursor, then the rest of the loop body
parse_redir(toks, i, arena, argv, redirs, saw_word) ==
    IF toks[i].kind \notin {"ROut", "ROutApp", "RIn", "Heredoc"}
    THEN SimpleCommandStop(toks, i, arena, argv, redirs, saw_word)
    ELSE IF toks[i + 1].kind # "Word"
         THEN make_err(toks[i + 1], "redirection missing target word", i + 1, arena)
         ELSE SimpleCommandStop(toks, i + 2, arena, argv,
                                Append(redirs, [kind |-> RedirKindOf(toks[i].kind),
                                                target |-> toks[i + 1].text]),
                                saw_word)

SimpleCommandLoop(toks, i, arena, argv, redirs, saw_word) ==
    IF toks[i].kind = "Word"
    THEN SimpleCommandLoop(toks, i + 1, arena, Append(argv, toks[i].text), redirs, TRUE)
    ELSE parse_redir(toks, i, arena, argv, redirs, saw_word)

\* shell::parse_simple_command(c, a, out_node)
shell_parse_simple_command(toks, i, arena) ==
    SimpleCommandLoop(toks, i, arena, <<>>, <<>>, FALSE)

\* a node whose contents were moved into a pipeline
MovedFrom(node) ==
    IF node.type = "Command"
    THEN [node EXCEPT !.argv = <<>>, !.redirs = <<>>]
    ELSE [node EXCEPT !.cmds = <<>>]

\* the commands a pipeline takes from one operand
CmdsOf(node) == IF node.type = "Pipeline" THEN node.cmds ELSE <<node>>

RECURSIVE parse_expr(_, _, _, _)
RECURSIVE ExprLoop(_, _, _, _, _)

\* the loop body of parse_expr once the right operand r of op is parsed
ExprCombine(toks, op, lhs, r, min_bp) ==
    IF r.err # <<>>
    THEN r
    ELSE IF op.kind = "Pipe"
         THEN IF r.arena[lhs].type = "Logical"
              THEN make_err(op,
                            "cannot pipeline a logical expression (grouping not implemented)",
                            r.i, r.arena)
              ELSE IF r.arena[r.node].type = "Logical"
              THEN make_err(op,
                            "cannot pipeline a logical expression (grouping not implemented)",
                            r.i, [r.arena EXCEPT ![lhs] = MovedFrom(@)])
              ELSE ExprLoop(toks, r.i,
                            Append([r.arena EXCEPT ![lhs] = MovedFrom(@),
                                                   ![r.node] = MovedFrom(@)],
                                   [type |-> "Pipeline",
                                    cmds |-> CmdsOf(r.arena[lhs]) \o CmdsOf(r.arena[r.node])]),
                            Len(r.arena) + 1, min_bp)
         ELSE ExprLoop(toks, r.i,
                       Append(r.arena, [type |-> "Logical", op |-> op.kind,
                                        lhs |-> lhs, rhs |-> r.node]),
                       Len(r.arena) + 1, min_bp)

ExprLoop(toks, i, arena, lhs, min_bp) ==
    IF \/ is_list_stop(toks[i].kind)
       \/ bp(toks[i].kind)[1] < min_bp
       \/ toks[i].kind \notin {"Pipe", "AndIf", "OrIf"}
    THEN ExprOk(i, arena, lhs)
    ELSE ExprCombine(toks, toks[i], lhs,
                     parse_expr(toks, i + 1, arena, bp(toks[i].kind)[2]), min_bp)

ExprAfterCommand(toks, s, min_bp) ==
    IF s.err # <<>> THEN s ELSE ExprLoop(toks, s.i, s.arena, s.node, min_bp)

parse_expr(toks, i, arena, min_bp) ==
    ExprAfterCommand(toks, shell_parse_simple_command(toks, i, arena), min_bp)

ParseResult(e, arena, items) == [err |-> e, arena |-> arena, items |-> items]

RECURSIVE ParseLoop(_, _, _, _)
\* Parser::parse after the list item is pushed: `;` or a newline goes on,
\* End ends the parse, anything else is an error
ParseAfterItem(toks, i, arena, items) ==
    IF toks[i].kind \in {"Semi", "Eol"}
    THEN ParseLoop(toks, i + 1, arena, items)
    ELSE IF toks[i].kind = "End"
         THEN ParseResult(<<>>, arena, items)
         ELSE ParseResult(<<[pos |-> toks[i].pos,
                             msg |-> "expected ';', '&', newline, or end"]>>, arena, items)

\* Parser::parse after parse_expr: c.match(Amp) sets the background flag
ParseAfterExpr(toks, e, items) ==
    IF e.err # <<>>
    THEN ParseResult(e.err, e.arena, items)
    ELSE IF toks[e.i].kind = "Amp"
         THEN ParseAfterItem(toks, e.i + 1, e.arena,
                             Append(items, [node |-> e.node, background |-> TRUE]))
         ELSE ParseAfterItem(toks, e.i, e.arena,
                             Append(items, [node |-> e.node, background |-> FALSE]))

ParseLoop(toks, i, arena, items) ==
    CASE toks[i].kind = "End" -> ParseResult(<<>>, arena, items)
      [] toks[i].kind = "Error" ->
           ParseResult(<<[pos |-> toks[i].pos, msg |-> toks[i].error_msg]>>, arena, items)
      [] toks[i].kind \in {"Eol", "Semi"} -> ParseLoop(toks, i + 1, arena, items)
      [] toks[i].kind = "Amp" ->
           ParseResult(<<[pos |-> toks[i].pos,
                          msg |-> "background operator requires a command before '&'"]>>,
                       arena, items)
      [] OTHER -> ParseAfterExpr(toks, parse_expr(toks, i, arena, 0), items)

\* shell::Parser::parse(toks)
Parser_parse(toks) == ParseLoop(toks, 1, <<>>, <<>>)

(***************************************************************************)
(* SpecArena: the line `source` is lexed with a newline appended, as the   *)
(* callers in test_parser.cpp and debug_parser.cpp do, and the tokens are  *)
(* handed to Parser::parse.                                                *)
(***************************************************************************)
ArenaPieces == { <<"a">>, <<" ">>, <<"&">>, <<";">>, <<"|">> }

ArenaSources == { Flatten(ps) : ps \in SeqsUpTo(ArenaPieces, MaxArenaPieces) }

InitArena ==
    /\ source \in ArenaSources
    /\ pc = "line"
    /\ result = <<>>
    /\ Idle

CallLex ==
    /\ pc = "line"
    /\ tokens' = lex(source \o <<"\n">>)
    /\ pc' = "lexed"
    /\ UNCHANGED <<source, result, lexer, lines, out, err, executed, reads, history>>

CallParse ==
    /\ pc = "lexed"
    /\ result' = <<Parser_parse(tokens)>>
    /\ pc' = "parsed"
    /\ UNCHANGED <<source, lexer, tokens, lines, out, err, executed, reads, history>>

NextArena == CallLex \/ CallParse

SpecArena == InitArena /\ [][NextArena]_vars

\* a line of words, each directly followed by `&` or `;`
TerminatedWords(line) ==
    /\ Len(line) > 0 /\ Len(line) % 2 = 0
    /\ \A j \in 1..Len(line) : line[j] \in (IF j % 2 = 1 THEN {"a"} ELSE {"&", ";"})

\* C24: in the arena-based parser `&` ends a list item and marks it as
\* background, and the next command may follow directly: a line of commands
\* each ended by `&` or `;` (such as `a & b ; c &`) parses without error into
\* one list item per command, whose background flag tells whether `&` ended it.
C24_AmpersandEndsListItem ==
    (pc = "parsed" /\ TerminatedWords(source)) =>
        /\ result[1].err = <<>>
        /\ Len(result[1].items) = Len(source) \div 2
        /\ \A j \in 1..Len(result[1].items) :
             result[1].items[j].background = (source[2 * j] = "&")

\* C30: after Lexer::reset(), the next next_token() call returns the first
\* token of the source, whatever peek_token and next_token calls were made
\* before the reset.
NextTokenAfterReset == pc = "reset" /\ pc' \in {"consumed", "drained"}

C30_ResetRestartsLexer ==
    [][NextTokenAfterReset => result'[1] = next_token(source, NewLexer).tok]_vars

(***************************************************************************)
(* C25.  When the command after a `|` fails to parse with a SyntaxError,   *)
(* parse_pipeline restores the lexer (position, line, column and buffered  *)
(* lookahead token) to the state it had before that `|` was consumed and   *)
(* returns the commands parsed so far as a successful result, so the next  *)
(* token seen by the caller is that `|`.  The command after the `|` is the *)
(* one parse_command is called for: the token after the pipe and its       *)
(* comments is not `|`, `;`, a newline or the end of input.                *)
(***************************************************************************)
RECURSIVE FailingPipe(_, _, _)
\* the pipe of the pipeline that starts the source whose command fails with
\* a SyntaxError: <<the commands before it, the lexer and token at it>>, or
\* <<>> when there is none; lx is the lexer after the commands cmds
FailingPipe(src, lx, cmds) ==
    LET before == peek_token(src, lx)
        after == peek_token(src, skip_comments(src, match(src, before.lx, "Pipe").lx))
        next == parse_command(src, after.lx)
    IN IF \/ before.tok.type # "Pipe"
          \/ after.tok.type \in {"Pipe", "Semicolon", "EndOfFile", "Newline"}
       THEN <<>>
       ELSE IF next.ok
            THEN FailingPipe(src, next.lx, Append(cmds, next.val))
            ELSE IF next.kind = "SyntaxError"
                 THEN <<[cmds |-> cmds, before |-> before]>>
                 ELSE <<>>

\* the source starts with a command, and a later command of its pipeline fails
RolledBack(src) ==
    LET first == parse_command(src, NewLexer)
    IN IF first.ok THEN FailingPipe(src, first.lx, <<first.val>>) ELSE <<>>

C25_FailedCommandRollsBackToPipe ==
    (Returned /\ RolledBack(source) # <<>>) =>
        LET rb == RolledBack(source)[1]
            r == parse_pipeline(source, NewLexer)
        IN /\ r.ok
           /\ r.val = IF Len(rb.cmds) = 1 THEN rb.cmds[1] ELSE make_pipeline(rb.cmds)
           /\ r.lx = rb.before.lx
           /\ r.lx.peeked = <<rb.before.tok>>
           /\ next_token(source, r.lx).tok = rb.before.tok
           /\ rb.before.tok.type = "Pipe"

\* two commands were parsed before the pipe whose command fails
C25_Witness ==
    /\ Returned /\ RolledBack(source) # <<>>
    /\ Len(RolledBack(source)[1].cmds) = 2
    /\ parse_pipeline(source, NewLexer).ok
    /\ parse_pipeline(source, NewLexer).val.node = "Pipeline"
    /\ ~Res.ok

(***************************************************************************)
(* C26.  When a double-quoted argument is not closed before a control      *)
(* token, parse_simple_command ends the argument at that token and leaves  *)
(* the token unconsumed, so the operator still takes effect: for a command *)
(* name, an argument that opens a quote without closing it, `|` or `;`,    *)
(* and a further command name, the `|` builds a pipeline of two commands   *)
(* and the `;` a sequence of two statements.                               *)
(***************************************************************************)
\* a word that starts with `"` and has no closing `"` at its end
OpensQuote(value) ==
    /\ Len(value) >= 1 /\ value[1] = "\""
    /\ Len(value) = 1 \/ Last(value) # "\""

UnclosedBeforeControl(src) ==
    LET toks == Tokenize(src)
    IN /\ TokenTypes(src) \in {<<"Identifier", "Identifier", op, "Identifier", "EndOfFile">> :
                                  op \in {"Pipe", "Semicolon"}}
       /\ ~OpensQuote(toks[1].value)
       /\ OpensQuote(toks[2].value)
       /\ ~OpensQuote(toks[4].value)

C26_UnclosedQuoteKeepsOperator ==
    (pc = "parse_line" /\ UnclosedBeforeControl(source)) =>
        /\ Res.ok
        /\ Len(Res.val) = 1
        /\ Res.val[1].node = (IF TokenTypes(source)[3] = "Pipe" THEN "Pipeline" ELSE "Sequence")

(***************************************************************************)
(* C27.  parse_line and parse_program agree: for every input on which      *)
(* parse_line succeeds, parse_program on the same input also succeeds and  *)
(* returns the same list of statements.                                    *)
(***************************************************************************)
C27_LineAndProgramAgree ==
    (pc = "parse_line" /\ Res.ok) =>
        /\ parse_program(source).ok
        /\ parse_program(source).val = Res.val

(***************************************************************************)
(* C28.  In every PipelineNode returned by the parser, no command other    *)
(* than the last one has background = true: a `&` placed before a `|`      *)
(* never yields a successfully parsed pipeline.                            *)
(***************************************************************************)
BackgroundOnlyLast(pipeline) ==
    \A i \in 1..(Len(pipeline.commands) - 1) : ~pipeline.commands[i].background

C28_BackgroundOnlyOnLastCommand ==
    (Returned /\ Res.ok) =>
        \A i \in 1..Len(Leaves(Res.val)) :
            Leaves(Res.val)[i].node = "Pipeline" => BackgroundOnlyLast(Leaves(Res.val)[i])

=============================================================================
